---- MODULE Spec2Model ----
(***************************************************************************)
(* Model of apps/aria_gltf_processing/c_src/ufbx_nif.c: the NIF that loads *)
(* an FBX scene with ufbx and converts it to an Erlang term (the IR).      *)
(*                                                                         *)
(* Erlang terms are modelled as follows:                                   *)
(*   map      a function whose domain is the set of its atom keys          *)
(*   list     a sequence                                                   *)
(*   integer  an integer; double: the integer standing for it              *)
(*   binary   [tag |-> "binary", chars |-> <<...>>]                        *)
(*   charlist [tag |-> "string", chars |-> <<...>>]  (enif_make_string)    *)
(*   atom     [tag |-> "atom",   chars |-> <<...>>]                        *)
(*   tuple    a sequence <<"ok", t>> / <<"error", t>>                      *)
(* Native pointers are 1-based indices into the scene's collections; the   *)
(* null pointer is 0.                                                      *)
(***************************************************************************)
EXTENDS Integers, Sequences, FiniteSets, TLC

\* ------------------------------------------------------------------------
\* Bounds of the model
\* ------------------------------------------------------------------------
MaxNodes == 3
MaxLen == 3
MaxColl == 2
MaxStacks == 2
MaxBakedNodes == 2
MaxKeys == 2

\* ------------------------------------------------------------------------
\* Characters and strings
\* ------------------------------------------------------------------------
DigitChars == <<"0", "1", "2", "3", "4", "5", "6", "7", "8", "9">>

Names == {<<>>, <<"a">>, <<"a", "b">>}

ErrorDescriptions == {<<"I", "O">>, <<"E", "O", "F">>}

\* sizeof(version_str)
VersionBufSize == 32

\* the sizes of the keys[] / values[] staging arrays
NodeSlots == 10         \* extract_node, lines 63-64
MeshSlots == 10         \* extract_mesh, lines 133-134
MaterialSlots == 10     \* extract_material, lines 208-209
TextureSlots == 5       \* extract_texture, lines 271-272
AnimationSlots == 4     \* extract_animation, lines 343-344

\* ------------------------------------------------------------------------
\* Native values (ufbx_vec3, ufbx_quat, ufbx_vec2) and their data
\* ------------------------------------------------------------------------
Vec3(a) == [x |-> a, y |-> a + 1, z |-> a + 2]
Quat(a) == [x |-> a, y |-> a + 1, z |-> a + 2, w |-> a + 3]
Vec2(a) == [x |-> a, y |-> a + 1]

\* ------------------------------------------------------------------------
\* Term helpers of erl_nif
\* ------------------------------------------------------------------------
\* enif_make_list_cell(env, head, tail)
enif_make_list_cell(head, tail) == <<head>> \o tail

\* enif_make_map_put(env, map, key, value, &map)
enif_make_map_put(map, key, value) ==
    [k \in (DOMAIN map) \cup {key} |-> IF k = key THEN value ELSE map[k]]

\* enif_make_new_map(env)
enif_make_new_map == [k \in {} |-> 0]

\* enif_make_atom(env, name) for the atom error
AtomError == [tag |-> "atom", chars |-> <<"e", "r", "r", "o", "r">>]

\* enif_make_string(env, chars, ERL_NIF_LATIN1)
enif_make_string(chars) == [tag |-> "string", chars |-> chars]

\* the loop "for (i = 0; i < idx; i++) enif_make_map_put(keys[i], values[i])"
\* over the staging arrays, given as the sequence of <<key, value>> pairs
RECURSIVE PutAll(_, _, _)
PutAll(map, kv, i) ==
    IF i > Len(kv) THEN map
    ELSE PutAll(enif_make_map_put(map, kv[i][1], kv[i][2]), kv, i + 1)

BuildMap(kv) == PutAll(enif_make_new_map, kv, 1)

\* ------------------------------------------------------------------------
\* Value converters (lines 9-59)
\* ------------------------------------------------------------------------
make_vec3(vec) == <<vec.x, vec.y, vec.z>>

make_vec4(vec) == <<vec.x, vec.y, vec.z, vec.w>>

\* make_string: str is the native string (its bytes, length = Len(str));
\* alloc_ok is the outcome of enif_alloc_binary
make_string(str, alloc_ok) ==
    IF Len(str) = 0 THEN enif_make_string(<<>>)
    ELSE IF ~alloc_ok THEN AtomError
    ELSE [tag |-> "binary", chars |-> SubSeq(str, 1, Len(str))]

\* mutant: the cell is put behind the list instead of in front of it
RECURSIVE PrependLoop_Append(_, _, _)
PrependLoop_Append(terms, i, result) ==
    IF i > 0
    THEN PrependLoop_Append(terms, i - 1, result \o <<terms[i]>>)
    ELSE result

\* the loop "for (i = count; i > 0; i--) result = cell(term(data[i-1]), result)";
\* terms[k] is the term made from the element at index k-1
RECURSIVE PrependLoop(_, _, _)
PrependLoop(terms, i, result) ==
    IF i > 0
    THEN PrependLoop(terms, i - 1, enif_make_list_cell(terms[i], result))
    ELSE result

make_vec3_list(list) ==
    PrependLoop([k \in DOMAIN list |-> make_vec3(list[k])], Len(list), <<>>)

enif_make_uint(v) == v

make_uint32_list(list) ==
    PrependLoop([k \in DOMAIN list |-> enif_make_uint(list[k])], Len(list), <<>>)

\* ------------------------------------------------------------------------
\* extract_node (lines 62-129).  sc is the native scene the node pointers
\* point into, k the node's place in sc.nodes, fails the set of string
\* sites <<kind, index, field>> whose enif_alloc_binary fails.
\* ------------------------------------------------------------------------
NodeChildrenTerm(sc, node) ==
    PrependLoop([c \in DOMAIN node.children |->
                    enif_make_uint(sc.nodes[node.children[c]].typed_id)],
                Len(node.children), <<>>)

\* mutant: the node's own id is written as its parent's
NodeParentId_OwnId(sc, node) == enif_make_uint(node.typed_id)

NodeParentId(sc, node) == enif_make_uint(sc.nodes[node.parent].typed_id)

\* mutant: a single child is not listed
NodeChildrenKv_OffByOne(sc, node) ==
    IF Len(node.children) > 1
    THEN << <<"children", NodeChildrenTerm(sc, node)>> >> ELSE << >>

\* lines 85-94
NodeChildrenKv(sc, node) ==
    IF Len(node.children) > 0
    THEN << <<"children", NodeChildrenTerm(sc, node)>> >> ELSE << >>

\* the staging arrays keys[]/values[] as filled up to idx
extract_node_kv(sc, fails, k, node_id) ==
    LET node == sc.nodes[k] IN
       << <<"id", enif_make_uint(node_id)>>,
          <<"name", make_string(node.name, <<"node", k, "name">> \notin fails)>> >>
    \o (IF node.parent # 0
        THEN << <<"parent_id", NodeParentId(sc, node)>> >> ELSE << >>)
    \o NodeChildrenKv(sc, node)
    \o << <<"translation", make_vec3(node.local_transform.translation)>>,
          <<"rotation", make_vec4([x |-> node.local_transform.rotation.x,
                                   y |-> node.local_transform.rotation.y,
                                   z |-> node.local_transform.rotation.z,
                                   w |-> node.local_transform.rotation.w])>>,
          <<"scale", make_vec3(node.local_transform.scale)>> >>
    \o (IF node.mesh # 0
        THEN << <<"mesh_id", enif_make_uint(sc.meshes[node.mesh].typed_id)>> >>
        ELSE << >>)

extract_node(sc, fails, k, node_id) == BuildMap(extract_node_kv(sc, fails, k, node_id))

\* ------------------------------------------------------------------------
\* extract_mesh (lines 132-204)
\* ------------------------------------------------------------------------
MeshTexcoordsTerm(mesh) ==
    PrependLoop([u \in DOMAIN mesh.vertex_uv.values |->
                    <<mesh.vertex_uv.values[u].x, mesh.vertex_uv.values[u].y>>],
                Len(mesh.vertex_uv.values), <<>>)

MeshMaterialIdsTerm(sc, mesh) ==
    PrependLoop([m \in DOMAIN mesh.materials |->
                    enif_make_uint(sc.materials[mesh.materials[m]].typed_id)],
                Len(mesh.materials), <<>>)

\* mutant: the indices block is not nested in the positions block
MeshPositionsKv_Unnested(mesh) ==
    (IF mesh.vertex_position.exists /\ Len(mesh.vertex_position.values) > 0
     THEN << <<"positions", make_vec3_list(mesh.vertex_position.values)>> >>
     ELSE << >>)
    \o (IF Len(mesh.vertex_position.indices) > 0
        THEN << <<"indices", make_uint32_list(mesh.vertex_position.indices)>> >>
        ELSE << >>)

\* lines 147-161: positions, and indices nested inside
MeshPositionsKv(mesh) ==
    IF mesh.vertex_position.exists /\ Len(mesh.vertex_position.values) > 0
    THEN << <<"positions", make_vec3_list(mesh.vertex_position.values)>> >>
         \o (IF Len(mesh.vertex_position.indices) > 0
             THEN << <<"indices", make_uint32_list(mesh.vertex_position.indices)>> >>
             ELSE << >>)
    ELSE << >>

extract_mesh_kv(sc, fails, k) ==
    LET mesh == sc.meshes[k] IN
       << <<"id", enif_make_uint(mesh.typed_id)>>,
          <<"name", make_string(mesh.name, <<"mesh", k, "name">> \notin fails)>> >>
    \o MeshPositionsKv(mesh)
    \o (IF mesh.vertex_normal.exists /\ Len(mesh.vertex_normal.values) > 0
        THEN << <<"normals", make_vec3_list(mesh.vertex_normal.values)>> >>
        ELSE << >>)
    \o (IF mesh.vertex_uv.exists /\ Len(mesh.vertex_uv.values) > 0
        THEN << <<"texcoords", MeshTexcoordsTerm(mesh)>> >> ELSE << >>)
    \o (IF Len(mesh.materials) > 0
        THEN << <<"material_ids", MeshMaterialIdsTerm(sc, mesh)>> >> ELSE << >>)

extract_mesh(sc, fails, k) == BuildMap(extract_mesh_kv(sc, fails, k))

\* ------------------------------------------------------------------------
\* extract_material (lines 207-267)
\* ------------------------------------------------------------------------
\* mutant: the component count is not tested
MapUsable_AnyComponents(map) == map.has_value

\* the test of lines 223, 228, 236, 241, 249, 254 on one ufbx_material_map
MapUsable(map) == map.has_value /\ map.value_components >= 3

\* mutant: two separate ifs, so a material with both sources writes the key
\* twice
ColorKv_BothSources(key, pbr, fbx) ==
    (IF MapUsable(pbr) THEN << <<key, make_vec3(pbr.value_vec3)>> >> ELSE << >>)
    \o (IF MapUsable(fbx) THEN << <<key, make_vec3(fbx.value_vec3)>> >> ELSE << >>)

\* one "if (pbr usable) ... else if (fbx usable) ..." block
ColorKv(key, pbr, fbx) ==
    IF MapUsable(pbr) THEN << <<key, make_vec3(pbr.value_vec3)>> >>
    ELSE IF MapUsable(fbx) THEN << <<key, make_vec3(fbx.value_vec3)>> >>
    ELSE << >>

extract_material_kv(sc, fails, k) ==
    LET material == sc.materials[k] IN
       << <<"id", enif_make_uint(material.typed_id)>>,
          <<"name", make_string(material.name, <<"material", k, "name">> \notin fails)>> >>
    \o ColorKv("diffuse_color", material.pbr.base_color, material.fbx.diffuse_color)
    \o ColorKv("specular_color", material.pbr.specular_color, material.fbx.specular_color)
    \o ColorKv("emissive_color", material.pbr.emission_color, material.fbx.emission_color)

extract_material(sc, fails, k) == BuildMap(extract_material_kv(sc, fails, k))

\* ------------------------------------------------------------------------
\* extract_texture (lines 270-298)
\* ------------------------------------------------------------------------
extract_texture_kv(sc, fails, k) ==
    LET texture == sc.textures[k] IN
       << <<"id", enif_make_uint(texture.typed_id)>>,
          <<"name", make_string(texture.name, <<"texture", k, "name">> \notin fails)>> >>
    \o (IF Len(texture.filename) > 0
        THEN << <<"file_path",
                  make_string(texture.filename, <<"texture", k, "file_path">> \notin fails)>> >>
        ELSE << >>)

extract_texture(sc, fails, k) == BuildMap(extract_texture_kv(sc, fails, k))

\* ------------------------------------------------------------------------
\* Keyframes and extract_animation (lines 300-446)
\* ------------------------------------------------------------------------
extract_vec3_keyframe(key, field_name) ==
    enif_make_map_put(enif_make_map_put(enif_make_new_map, "time", key.time),
                      field_name, make_vec3(key.value))

extract_quat_keyframe(key) ==
    enif_make_map_put(enif_make_map_put(enif_make_new_map, "time", key.time),
                      "rotation",
                      <<key.value.x, key.value.y, key.value.z, key.value.w>>)

\* lines 369-382: a new map with node_id, then the two fields of keyframe
\* copied when enif_get_map_value finds them
KeyframeMap(keyframe, node_id, field_name) ==
    LET m0 == enif_make_map_put(enif_make_new_map, "node_id", enif_make_uint(node_id))
        m1 == IF "time" \in DOMAIN keyframe
              THEN enif_make_map_put(m0, "time", keyframe["time"]) ELSE m0
    IN  IF field_name \in DOMAIN keyframe
        THEN enif_make_map_put(m1, field_name, keyframe[field_name]) ELSE m1

\* the body of the node loop (lines 361-431) for one baked node: the three
\* key loops, each prepending to all_keyframes while walking backward
BakedNodeKeyframes(baked_node, all_keyframes) ==
    LET node_id == baked_node.typed_id
        t == PrependLoop(
               [j \in DOMAIN baked_node.translation_keys |->
                  KeyframeMap(extract_vec3_keyframe(baked_node.translation_keys[j],
                                                    "translation"),
                              node_id, "translation")],
               Len(baked_node.translation_keys), all_keyframes)
        r == PrependLoop(
               [j \in DOMAIN baked_node.rotation_keys |->
                  KeyframeMap(extract_quat_keyframe(baked_node.rotation_keys[j]),
                              node_id, "rotation")],
               Len(baked_node.rotation_keys), t)
    IN  PrependLoop(
               [j \in DOMAIN baked_node.scale_keys |->
                  KeyframeMap(extract_vec3_keyframe(baked_node.scale_keys[j], "scale"),
                              node_id, "scale")],
               Len(baked_node.scale_keys), r)

\* the node loop "for (i = baked->nodes.count; i > 0; i--)" (line 360)
RECURSIVE BakedNodesLoop(_, _, _)
BakedNodesLoop(nodes, i, all_keyframes) ==
    IF i > 0
    THEN BakedNodesLoop(nodes, i - 1, BakedNodeKeyframes(nodes[i], all_keyframes))
    ELSE all_keyframes

extract_animation_kv(baked, anim_stack, alloc_ok) ==
    << <<"id", enif_make_uint(anim_stack.typed_id)>>,
       <<"name", make_string(anim_stack.name, alloc_ok)>>,
       <<"keyframes", BakedNodesLoop(baked.nodes, Len(baked.nodes), <<>>)>> >>

extract_animation(baked, anim_stack, alloc_ok) ==
    BuildMap(extract_animation_kv(baked, anim_stack, alloc_ok))

\* ------------------------------------------------------------------------
\* extract_scene_data (lines 449-530)
\* ------------------------------------------------------------------------
\* lines 451-456
SceneNodesTerm(sc, fails) ==
    PrependLoop([k \in DOMAIN sc.nodes |->
                    extract_node(sc, fails, k, sc.nodes[k].typed_id)],
                Len(sc.nodes), <<>>)

\* lines 459-464
SceneMeshesTerm(sc, fails) ==
    PrependLoop([k \in DOMAIN sc.meshes |-> extract_mesh(sc, fails, k)],
                Len(sc.meshes), <<>>)

\* lines 467-472
SceneMaterialsTerm(sc, fails) ==
    PrependLoop([k \in DOMAIN sc.materials |-> extract_material(sc, fails, k)],
                Len(sc.materials), <<>>)

\* lines 475-480
SceneTexturesTerm(sc, fails) ==
    PrependLoop([k \in DOMAIN sc.textures |-> extract_texture(sc, fails, k)],
                Len(sc.textures), <<>>)

\* printf's %u conversion of an unsigned number
RECURSIVE FormatUnsigned(_)
FormatUnsigned(n) ==
    IF n < 10 THEN <<DigitChars[n + 1]>>
    ELSE FormatUnsigned(n \div 10) \o <<DigitChars[(n % 10) + 1]>>

\* snprintf(buf, size, ...) keeps at most size - 1 characters
Truncate(chars, size) ==
    IF Len(chars) > size - 1 THEN SubSeq(chars, 1, size - 1) ELSE chars

\* mutant: the minor number is taken from the wrong digit
VersionStr_WrongMinor(version) ==
    Truncate(<<"F", "B", "X", " ">> \o FormatUnsigned(version \div 1000)
             \o <<".">> \o FormatUnsigned((version % 100) \div 10),
             VersionBufSize)

\* lines 502-505
VersionStr(version) ==
    Truncate(<<"F", "B", "X", " ">> \o FormatUnsigned(version \div 1000)
             \o <<".">> \o FormatUnsigned((version % 1000) \div 100),
             VersionBufSize)

\* lines 508-527
SceneDataKv(version_str, nodes_t, meshes_t, materials_t, textures_t, animations_t) ==
    << <<"version", enif_make_string(version_str)>>,
       <<"nodes", nodes_t>>,
       <<"meshes", meshes_t>>,
       <<"materials", materials_t>>,
       <<"textures", textures_t>>,
       <<"animations", animations_t>> >>

\* ------------------------------------------------------------------------
\* Native scenes: what ufbx hands to the NIF.  typed_id is the element's
\* index in its typed collection, as ufbx assigns it.
\* ------------------------------------------------------------------------
Transform(k) ==
    [translation |-> Vec3(10 * k), rotation |-> Quat(10 * k + 3), scale |-> Vec3(10 * k + 7)]

MkNode(k, name, parent, children, mesh) ==
    [typed_id |-> k - 1, name |-> name, parent |-> parent, children |-> children,
     local_transform |-> Transform(k), mesh |-> mesh]

NoAttrib == [exists |-> FALSE, values |-> <<>>, indices |-> <<>>]

MkMesh(k, name, pos, nrm, uv, mats) ==
    [typed_id |-> k - 1, name |-> name, vertex_position |-> pos,
     vertex_normal |-> nrm, vertex_uv |-> uv, materials |-> mats]

DefaultMesh(k) == MkMesh(k, <<"a">>, NoAttrib, NoAttrib, NoAttrib, <<>>)

MkMap(has, comps, a) ==
    [has_value |-> has, value_components |-> comps, value_vec3 |-> Vec3(a)]

NoMap == MkMap(FALSE, 0, 0)

MkMaterial(k, name, pbr, fbx) ==
    [typed_id |-> k - 1, name |-> name, pbr |-> pbr, fbx |-> fbx]

DefaultMaterial(k) ==
    MkMaterial(k, <<"a">>,
               [base_color |-> NoMap, specular_color |-> NoMap, emission_color |-> NoMap],
               [diffuse_color |-> NoMap, specular_color |-> NoMap, emission_color |-> NoMap])

MkTexture(k, name, filename) == [typed_id |-> k - 1, name |-> name, filename |-> filename]

MkStack(k, name) == [typed_id |-> k - 1, name |-> name, anim |-> k]

MkScene(nodes_, meshes_, materials_, textures_, stacks_, version) ==
    [nodes |-> nodes_, meshes |-> meshes_, materials |-> materials_,
     textures |-> textures_, anim_stacks |-> stacks_,
     metadata |-> [version |-> version]]

\* the root node alone: every ufbx scene has it
RootOnly == <<MkNode(1, <<>>, 0, <<>>, 0)>>

\* a chain of n nodes, node k the only child of node k - 1
ChainNodes(n) ==
    [k \in 1..n |-> MkNode(k, <<"a">>, k - 1, IF k < n THEN <<k + 1>> ELSE <<>>, 0)]

EmptyScene == MkScene(<<>>, <<>>, <<>>, <<>>, <<>>, 0)

\* what ufbx_bake_anim returns for a stack: NULL (ok = FALSE) or a baked anim
BakeFailed == [ok |-> FALSE, anim |-> [nodes |-> <<>>]]
BakeOk(bnodes) == [ok |-> TRUE, anim |-> [nodes |-> bnodes]]

\* baked keys are sampled at increasing times
Vec3Keys(n, a) == [j \in 1..n |-> [time |-> j - 1, value |-> Vec3(a + 10 * j)]]
QuatKeys(n, a) == [j \in 1..n |-> [time |-> j - 1, value |-> Quat(a + 10 * j)]]

MkBakedNode(id, nt, nr, ns) ==
    [typed_id |-> id,
     translation_keys |-> Vec3Keys(nt, 100 * id + 100),
     rotation_keys |-> QuatKeys(nr, 100 * id + 104),
     scale_keys |-> Vec3Keys(ns, 100 * id + 108)]

\* an input of one load call: the scene the parser yields, the result of
\* ufbx_bake_anim for each stack, and the failing allocation sites
MkInput(sc, bakes_, fails_) == [sc |-> sc, bakes |-> bakes_, fails |-> fails_]

\* --- node trees: node 1 is the root, node k > 1 has its parent before it
ParentMaps(n) ==
    {p \in [1..n -> 0..n] : \A k \in 1..n : IF k = 1 THEN p[k] = 0
                                             ELSE p[k] >= 1 /\ p[k] < k}

Kids(n, p, k) == {c \in 1..n : p[c] = k}

Perms(S) == {q \in [1..Cardinality(S) -> S] : \A a, b \in DOMAIN q : a # b => q[a] # q[b]}

ChildOrders(n, p) ==
    {c \in [1..n -> UNION {Perms(Kids(n, p, k)) : k \in 1..n}] :
        \A k \in 1..n : c[k] \in Perms(Kids(n, p, k))}

NodeNames == {<<>>, <<"a", "b">>}

NodeScenes ==
    UNION { UNION { UNION {
        { MkInput(MkScene([k \in 1..n |-> MkNode(k, nm[k], p[k], c[k], ms[k])],
                          <<DefaultMesh(1)>>, <<>>, <<>>, <<>>, 7400),
                  <<>>, {}) :
            nm \in [1..n -> NodeNames], ms \in [1..n -> 0..1] }
        : c \in ChildOrders(n, p) } : p \in ParentMaps(n) } : n \in 1..MaxNodes }

\* --- one mesh, every attribute varied
Vec3Array(n) == [k \in 1..n |-> Vec3(10 * k)]
Vec2Array(n) == [k \in 1..n |-> Vec2(10 * k)]
IndexArray(n) == [k \in 1..n |-> MaxLen - k]

Vec3Attribs(lens) ==
    {[exists |-> e, values |-> Vec3Array(n), indices |-> <<>>] :
        e \in BOOLEAN, n \in lens}

Vec2Attribs(lens) ==
    {[exists |-> e, values |-> Vec2Array(n), indices |-> <<>>] :
        e \in BOOLEAN, n \in lens}

MeshScenes ==
    { MkInput(MkScene(RootOnly,
                      <<MkMesh(1, <<"a">>,
                               [pos EXCEPT !.indices = IndexArray(ni)],
                               nrm, uv, [m \in 1..nm |-> nm + 1 - m])>>,
                      [k \in 1..MaxLen |-> DefaultMaterial(k)],
                      <<>>, <<>>, 7400),
              <<>>, {}) :
        pos \in Vec3Attribs(0..MaxLen), ni \in 0..MaxLen,
        nrm \in Vec3Attribs({0, MaxLen}), uv \in Vec2Attribs({0, MaxLen}),
        nm \in {0, MaxLen} }

\* --- one material, every color source varied
Sources(a) == {MkMap(FALSE, 3, a), MkMap(TRUE, 2, a), MkMap(TRUE, 3, a), MkMap(TRUE, 4, a)}
LegacySources(a) == {MkMap(FALSE, 3, a), MkMap(TRUE, 2, a), MkMap(TRUE, 3, a)}

MaterialScenes ==
    { MkInput(MkScene(RootOnly, <<>>,
                      <<MkMaterial(1, <<"a">>,
                                   [base_color |-> pd, specular_color |-> ps,
                                    emission_color |-> pe],
                                   [diffuse_color |-> fd, specular_color |-> fs,
                                    emission_color |-> fe])>>,
                      <<>>, <<>>, 7400),
              <<>>, {}) :
        pd \in Sources(10), ps \in Sources(20), pe \in Sources(30),
        fd \in LegacySources(40), fs \in LegacySources(50), fe \in LegacySources(60) }

\* --- textures
TextureScenes ==
    UNION { { MkInput(MkScene(RootOnly, <<>>, <<>>,
                              [k \in 1..n |-> MkTexture(k, nm[k], fn[k])],
                              <<>>, 7400),
                      <<>>, {}) :
                nm \in [1..n -> NodeNames], fn \in [1..n -> Names] } : n \in 0..MaxColl }

\* --- the scene's collections, several elements each
CollectionScenes ==
    { MkInput(MkScene(ChainNodes(nn), [k \in 1..nm |-> DefaultMesh(k)],
                      [k \in 1..nt |-> DefaultMaterial(k)], <<>>, <<>>, 7400),
              <<>>, {}) :
        nn \in 1..MaxColl, nm \in 0..MaxColl, nt \in 0..MaxColl }

\* --- versions
Versions == {0, 99, 100, 999, 1000, 5800, 6100, 7400, 7500, 7700, 10000, 123456, 2147483647}

VersionScenes ==
    { MkInput(MkScene(RootOnly, <<>>, <<>>, <<>>, <<>>, v), <<>>, {}) : v \in Versions }

\* --- one animation stack, every shape of bake result
KeyCounts(n) == IF n = 1 THEN 0..MaxKeys ELSE {0, MaxKeys}

BakedAnims ==
    UNION { { BakeOk([j \in 1..n |-> MkBakedNode(n - j, nt[j], nr[j], ns[j])]) :
                nt \in [1..n -> KeyCounts(n)], nr \in [1..n -> KeyCounts(n)],
                ns \in [1..n -> KeyCounts(n)] } : n \in 0..MaxBakedNodes }

TrackScenes ==
    { MkInput(MkScene(ChainNodes(MaxBakedNodes), <<>>, <<>>, <<>>,
                      <<MkStack(1, <<"a">>)>>, 7400),
              <<b>>, {}) : b \in BakedAnims \cup {BakeFailed} }

\* --- several stacks, each bake failing or succeeding
SmallBakes ==
    {BakeFailed, BakeOk(<<>>), BakeOk(<<MkBakedNode(0, 1, 0, 1)>>)}

StackScenes ==
    UNION { { MkInput(MkScene(RootOnly, <<>>, <<>>, <<>>,
                              [k \in 1..n |-> MkStack(k, <<"a">>)], 7400),
                      b, {}) : b \in [1..n -> SmallBakes] } : n \in 0..MaxStacks }

\* --- allocation failures of enif_alloc_binary in make_string
StringSites ==
    {<<"node", 1, "name">>, <<"mesh", 1, "name">>, <<"material", 1, "name">>,
     <<"texture", 1, "name">>, <<"texture", 1, "file_path">>,
     <<"animation", 1, "name">>}

StringScenes ==
    { MkInput(MkScene(<<MkNode(1, <<"a", "b">>, 0, <<>>, 1)>>, <<DefaultMesh(1)>>,
                      <<DefaultMaterial(1)>>, <<MkTexture(1, <<"a">>, fn)>>,
                      <<MkStack(1, <<"a">>)>>, 7400),
              <<BakeOk(<<MkBakedNode(0, 1, 0, 0)>>)>>, f) :
        fn \in Names, f \in SUBSET StringSites }

Inputs ==
    NodeScenes \cup MeshScenes \cup MaterialScenes \cup TextureScenes
    \cup CollectionScenes \cup VersionScenes \cup TrackScenes \cup StackScenes
    \cup StringScenes

\* ------------------------------------------------------------------------
\* State of one NIF call
\* ------------------------------------------------------------------------
VARIABLES
    pc,            \* where the call is
    entry,         \* which NIF was called
    scene,         \* the ufbx_scene the parser returned
    sceneLive,     \* the scene is allocated and not yet freed
    bakes,         \* what ufbx_bake_anim returns for each stack of the scene
    fails,         \* the string sites whose enif_alloc_binary fails
    error,         \* error.description as set by a failed parse
    parse,         \* the parser's outcome: "none" (not called), "failed", "ok"
    nodes, meshes, materials, textures, animations,  \* locals of extract_scene_data
    i,             \* the index of the stack loop (line 487)
    baked,         \* the ufbx_baked_anim of the current iteration
    bakedLive,     \* it is allocated and not yet freed
    scene_data,    \* the map extract_scene_data returns
    result,        \* the term the NIF returns
    extractCalls, bakeCalls, bakedFrees, sceneFrees,  \* calls made so far
    run,           \* 1 in the first call on a scene, 2 in a second call on it
    first          \* in a second call: the term the first call returned

vars == <<run, first, pc, entry, scene, sceneLive, bakes, fails, error, parse, nodes, meshes, materials,
          textures, animations, i, baked, bakedLive, scene_data, result,
          extractCalls, bakeCalls, bakedFrees, sceneFrees>>

locals == <<nodes, meshes, materials, textures, animations, i, baked, bakedLive, scene_data>>
counters == <<extractCalls, bakeCalls, bakedFrees, sceneFrees>>
input == <<scene, sceneLive, bakes, fails, error, parse>>
call == <<run, first>>

NoResult == <<"none">>
NoBaked == [nodes |-> <<>>]

Init ==
    /\ pc = "idle"
    /\ entry = "none"
    /\ scene = EmptyScene
    /\ sceneLive = FALSE
    /\ bakes = <<>>
    /\ fails = {}
    /\ error = <<>>
    /\ parse = "none"
    /\ nodes = <<>> /\ meshes = <<>> /\ materials = <<>> /\ textures = <<>>
    /\ animations = <<>>
    /\ i = 0
    /\ baked = NoBaked
    /\ bakedLive = FALSE
    /\ scene_data = enif_make_new_map
    /\ result = NoResult
    /\ extractCalls = 0 /\ bakeCalls = 0 /\ bakedFrees = 0 /\ sceneFrees = 0
    /\ run = 1
    /\ first = NoResult

\* lines 539-541 / 579-581: the argument is not a binary
BadArg(e) ==
    /\ pc = "idle"
    /\ entry' = e
    /\ result' = <<"badarg">>
    /\ pc' = "done"
    /\ UNCHANGED <<call, input, locals, counters>>

\* mutant: the error path releases the scene pointer too
ParseFailed_FreesScene(e) ==
    /\ pc = "idle"
    /\ \E d \in ErrorDescriptions :
         /\ error' = d
         /\ result' = <<"error", enif_make_string(d)>>
    /\ parse' = "failed"
    /\ entry' = e
    /\ sceneFrees' = sceneFrees + 1
    /\ pc' = "done"
    /\ UNCHANGED <<call, scene, sceneLive, bakes, fails, locals,
                   extractCalls, bakeCalls, bakedFrees>>

\* lines 550-557 / 585-592: the parser returns NULL and sets error
ParseFailed(e) ==
    /\ pc = "idle"
    /\ \E d \in ErrorDescriptions :
         /\ error' = d
         /\ result' = <<"error", enif_make_string(d)>>
    /\ parse' = "failed"
    /\ entry' = e
    /\ pc' = "done"
    /\ UNCHANGED <<call, scene, sceneLive, bakes, fails, locals, counters>>

\* lines 550-552 / 585-587: the parser returns a scene, one of ins
ParseOkFrom(e, ins) ==
    /\ pc = "idle"
    /\ \E in \in ins :
         /\ scene' = in.sc
         /\ bakes' = in.bakes
         /\ fails' = in.fails
    /\ sceneLive' = TRUE
    /\ parse' = "ok"
    /\ entry' = e
    /\ pc' = "extract_scene_data"
    /\ UNCHANGED <<call, error, result, locals, counters>>

ParseOk(e) == ParseOkFrom(e, Inputs)

Load(e) == BadArg(e) \/ ParseFailed(e) \/ ParseOk(e)

\* load_fbx_nif up to the call of extract_scene_data (lines 532-557)
load_fbx_nif == Load("load_fbx")

\* load_fbx_binary_nif up to the call of extract_scene_data (lines 572-592)
load_fbx_binary_nif == Load("load_fbx_binary")

\* extract_scene_data, lines 450-485: the four entity lists
ExtractEntities ==
    /\ pc = "extract_scene_data"
    /\ extractCalls' = extractCalls + 1
    /\ nodes' = SceneNodesTerm(scene, fails)
    /\ meshes' = SceneMeshesTerm(scene, fails)
    /\ materials' = SceneMaterialsTerm(scene, fails)
    /\ textures' = SceneTexturesTerm(scene, fails)
    /\ animations' = <<>>
    /\ i' = Len(scene.anim_stacks)
    /\ pc' = "bake_loop"
    /\ UNCHANGED <<call, entry, input, baked, bakedLive, scene_data, result,
                   bakeCalls, bakedFrees, sceneFrees>>

\* mutant: a failed bake ends the stack loop
BakeAnim_StopsOnFailure ==
    /\ pc = "bake_loop"
    /\ i > 0
    /\ bakeCalls' = bakeCalls + 1
    /\ IF bakes[scene.anim_stacks[i].anim].ok
       THEN /\ baked' = bakes[scene.anim_stacks[i].anim].anim
            /\ bakedLive' = TRUE
            /\ pc' = "extract_animation"
            /\ i' = i
       ELSE /\ baked' = NoBaked
            /\ bakedLive' = FALSE
            /\ pc' = "bake_loop"
            /\ i' = 0
    /\ UNCHANGED <<call, entry, input, nodes, meshes, materials, textures, animations,
                   scene_data, result, extractCalls, bakedFrees, sceneFrees>>

\* lines 487-494: one ufbx_bake_anim call and the test of its result
BakeAnim ==
    /\ pc = "bake_loop"
    /\ i > 0
    /\ bakeCalls' = bakeCalls + 1
    /\ IF bakes[scene.anim_stacks[i].anim].ok
       THEN /\ baked' = bakes[scene.anim_stacks[i].anim].anim
            /\ bakedLive' = TRUE
            /\ pc' = "extract_animation"
            /\ i' = i
       ELSE /\ baked' = NoBaked
            /\ bakedLive' = FALSE
            /\ pc' = "bake_loop"
            /\ i' = i - 1
    /\ UNCHANGED <<call, entry, input, nodes, meshes, materials, textures, animations,
                   scene_data, result, extractCalls, bakedFrees, sceneFrees>>

\* lines 495-496
ExtractAnimation ==
    /\ pc = "extract_animation"
    /\ animations' =
         enif_make_list_cell(
             extract_animation(baked, scene.anim_stacks[i],
                               <<"animation", i, "name">> \notin fails),
             animations)
    /\ pc' = "free_baked"
    /\ UNCHANGED <<call, entry, input, nodes, meshes, materials, textures, i, baked,
                   bakedLive, scene_data, result, counters>>

\* mutant: the loop goes on to the next stack without ufbx_free_baked_anim
FreeBakedAnim_Leak ==
    /\ pc = "free_baked"
    /\ i' = i - 1
    /\ pc' = "bake_loop"
    /\ UNCHANGED <<call, entry, input, nodes, meshes, materials, textures, animations,
                   baked, bakedLive, scene_data, result, counters>>

\* line 497, and the loop's i--
FreeBakedAnim ==
    /\ pc = "free_baked"
    /\ bakedLive' = FALSE
    /\ bakedFrees' = bakedFrees + 1
    /\ i' = i - 1
    /\ pc' = "bake_loop"
    /\ UNCHANGED <<call, entry, input, nodes, meshes, materials, textures, animations,
                   baked, scene_data, result, extractCalls, bakeCalls, sceneFrees>>

\* lines 501-529, after the stack loop ends
BuildSceneData ==
    /\ pc = "bake_loop"
    /\ i = 0
    /\ scene_data' =
         BuildMap(SceneDataKv(VersionStr(scene.metadata.version),
                              nodes, meshes, materials, textures, animations))
    /\ pc' = "free_scene"
    /\ UNCHANGED <<call, entry, input, nodes, meshes, materials, textures, animations,
                   i, baked, bakedLive, result, counters>>

\* lines 563 / 598: ufbx_free_scene
FreeScene ==
    /\ pc = "free_scene"
    /\ sceneLive' = FALSE
    /\ sceneFrees' = sceneFrees + 1
    /\ pc' = "return"
    /\ UNCHANGED <<call, entry, scene, bakes, fails, error, parse, locals, result,
                   extractCalls, bakeCalls, bakedFrees>>

\* lines 566-568 / 601-603
ReturnOk ==
    /\ pc = "return"
    /\ result' = <<"ok", scene_data>>
    /\ pc' = "done"
    /\ UNCHANGED <<call, entry, input, locals, counters>>

Next ==
    \/ load_fbx_nif
    \/ load_fbx_binary_nif
    \/ ExtractEntities
    \/ BakeAnim
    \/ ExtractAnimation
    \/ FreeBakedAnim
    \/ BuildSceneData
    \/ FreeScene
    \/ ReturnOk

Spec == Init /\ [][Next]_vars

\* ------------------------------------------------------------------------
\* Two calls on the same scene
\* ------------------------------------------------------------------------
\* the string sites of a scene: one enif_alloc_binary call of make_string each
SceneSites(sc) ==
    {<<"node", k, "name">> : k \in DOMAIN sc.nodes}
    \cup {<<"mesh", k, "name">> : k \in DOMAIN sc.meshes}
    \cup {<<"material", k, "name">> : k \in DOMAIN sc.materials}
    \cup {<<"texture", k, "name">> : k \in DOMAIN sc.textures}
    \cup {<<"texture", k, "file_path">> : k \in DOMAIN sc.textures}
    \cup {<<"animation", k, "name">> : k \in DOMAIN sc.anim_stacks}

\* what enif_alloc_binary may do during one call: succeed everywhere, or
\* fail at one site
AllocOutcomes(sc) == {{}} \cup {{site} : site \in SceneSites(sc)}

\* the scenes the two-call specification starts from
TwoCallInputs ==
    StackScenes \cup TextureScenes \cup CollectionScenes
    \cup {in \in StringScenes : in.fails = {}}

\* a second call of the same NIF after the first returned ok: the parser
\* yields the same scene and ufbx_bake_anim the same result for every stack;
\* every local starts afresh (the file has no static state); the allocator
\* answers as the memory then allows
LoadAgain ==
    /\ pc = "done"
    /\ run = 1
    /\ result[1] = "ok"
    /\ run' = 2
    /\ first' = result
    /\ \E f \in AllocOutcomes(scene) : fails' = f
    /\ sceneLive' = TRUE
    /\ parse' = "ok"
    /\ pc' = "extract_scene_data"
    /\ result' = NoResult
    /\ nodes' = <<>> /\ meshes' = <<>> /\ materials' = <<>> /\ textures' = <<>>
    /\ animations' = <<>>
    /\ i' = 0
    /\ baked' = NoBaked
    /\ bakedLive' = FALSE
    /\ scene_data' = enif_make_new_map
    /\ extractCalls' = 0 /\ bakeCalls' = 0 /\ bakedFrees' = 0 /\ sceneFrees' = 0
    /\ UNCHANGED <<entry, scene, bakes, error>>

LoadFirst(e) == BadArg(e) \/ ParseFailed(e) \/ ParseOkFrom(e, TwoCallInputs)

NextTwoCalls ==
    \/ LoadFirst("load_fbx")
    \/ LoadFirst("load_fbx_binary")
    \/ LoadAgain
    \/ ExtractEntities
    \/ BakeAnim
    \/ ExtractAnimation
    \/ FreeBakedAnim
    \/ BuildSceneData
    \/ FreeScene
    \/ ReturnOk

SpecTwoCalls == Init /\ [][NextTwoCalls]_vars

\* ------------------------------------------------------------------------
\* Properties
\* ------------------------------------------------------------------------
\* the call returned {:ok, IR}
ReturnedOk == pc = "done" /\ result[1] = "ok"
IR == result[2]

Range(seq) == {seq[k] : k \in DOMAIN seq}

\* C1 -------------------------------------------------------------------
\* the keyframes the claim describes: node groups in the bake result's forward
\* order, each group the translation keys, then the rotation keys, then the
\* scale keys, each channel in the key array's forward order
AsList3(v) == <<v.x, v.y, v.z>>
AsList4(v) == <<v.x, v.y, v.z, v.w>>

Vec3Channel(id, keys, field_name) ==
    [j \in DOMAIN keys |->
        (field_name :> AsList3(keys[j].value))
        @@ [node_id |-> id, time |-> keys[j].time]]

QuatChannel(id, keys) ==
    [j \in DOMAIN keys |->
        [node_id |-> id, time |-> keys[j].time, rotation |-> AsList4(keys[j].value)]]

NodeGroupTRS(bn) ==
    Vec3Channel(bn.typed_id, bn.translation_keys, "translation")
    \o QuatChannel(bn.typed_id, bn.rotation_keys)
    \o Vec3Channel(bn.typed_id, bn.scale_keys, "scale")

\* the order the three loops of lines 365-431 leave behind, each prepending
\* its channel in front of the previous one
NodeGroupSRT(bn) ==
    Vec3Channel(bn.typed_id, bn.scale_keys, "scale")
    \o QuatChannel(bn.typed_id, bn.rotation_keys)
    \o Vec3Channel(bn.typed_id, bn.translation_keys, "translation")

\* seqs[k] \o seqs[k + 1] \o ... \o seqs[Len(seqs)]
RECURSIVE Concat(_, _)
Concat(seqs, k) ==
    IF k > Len(seqs) THEN <<>> ELSE seqs[k] \o Concat(seqs, k + 1)

\* C1: in the track extract_animation just produced (the head of animations),
\* the keyframes are the baked nodes' groups in forward node order, each group
\* the node's translation, rotation and scale keys in that order, each channel
\* in increasing time.
C1_KeyframesTranslationRotationScale ==
    pc = "free_baked" =>
        Head(animations)["keyframes"]
            = Concat([k \in DOMAIN baked.nodes |-> NodeGroupTRS(baked.nodes[k])], 1)

\* C2 -------------------------------------------------------------------
IsDigit(c) == \E d \in 1..10 : DigitChars[d] = c
DigitValue(c) == CHOOSE d \in 0..9 : DigitChars[d + 1] = c

RECURSIVE DecimalValue(_)
DecimalValue(s) ==
    IF Len(s) = 0 THEN 0
    ELSE 10 * DecimalValue(SubSeq(s, 1, Len(s) - 1)) + DigitValue(s[Len(s)])

\* s is the decimal numeral of n, without leading zeros
IsDecimalOf(s, n) ==
    /\ Len(s) >= 1
    /\ \A k \in DOMAIN s : IsDigit(s[k])
    /\ Len(s) > 1 => s[1] # "0"
    /\ DecimalValue(s) = n

\* chars, from position from on, reads "<major>.<minor>" and nothing else
MajorDotMinorFrom(chars, from, major, minor) ==
    \E p \in from..Len(chars) :
        /\ chars[p] = "."
        /\ IsDecimalOf(SubSeq(chars, from, p - 1), major)
        /\ IsDecimalOf(SubSeq(chars, p + 1, Len(chars)), minor)

Major(v) == v \div 1000
Minor(v) == (v % 1000) \div 100

\* C2 as claimed: the version field is exactly "<major>.<minor>", nothing
\* before or after it (7400 gives "7.4", 6100 gives "6.1").
C2_VersionIsMajorDotMinor ==
    ReturnedOk =>
        MajorDotMinorFrom(IR["version"].chars, 1,
                          Major(scene.metadata.version), Minor(scene.metadata.version))

\* C2 as amended: the version field is exactly "FBX <major>.<minor>" with
\* major = v / 1000 and minor = (v % 1000) / 100, so 7400 gives "FBX 7.4" and
\* 6100 gives "FBX 6.1", with nothing else before or after it.
C2_VersionIsFbxMajorDotMinor ==
    ReturnedOk =>
        LET v == scene.metadata.version
            chars == IR["version"].chars
        IN  /\ IR["version"].tag = "string"
            /\ Len(chars) >= 4
            /\ SubSeq(chars, 1, 4) = <<"F", "B", "X", " ">>
            /\ MajorDotMinorFrom(chars, 5, Major(v), Minor(v))
            /\ v = 7400 => chars = <<"F", "B", "X", " ", "7", ".", "4">>
            /\ v = 6100 => chars = <<"F", "B", "X", " ", "6", ".", "1">>

C2_Witness ==
    /\ ReturnedOk
    /\ scene.metadata.version = 6100
    /\ IR["version"].chars = <<"F", "B", "X", " ", "6", ".", "1">>

\* C3 -------------------------------------------------------------------
\* out is a list as long as the native collection, whose k-th element is
\* expected[k], the term made from the collection's k-th element
CopiesInOrder(out, expected) ==
    /\ Len(out) = Len(expected)
    /\ \A k \in DOMAIN expected : out[k] = expected[k]

HasKey(rec, key) == key \in DOMAIN rec

NodeListsInOrder(rec, node) ==
    HasKey(rec, "children") =>
        CopiesInOrder(rec["children"],
                      [c \in DOMAIN node.children |->
                          scene.nodes[node.children[c]].typed_id])

MeshListsInOrder(rec, mesh) ==
    /\ HasKey(rec, "positions") =>
         CopiesInOrder(rec["positions"],
                       [p \in DOMAIN mesh.vertex_position.values |->
                           AsList3(mesh.vertex_position.values[p])])
    /\ HasKey(rec, "indices") =>
         CopiesInOrder(rec["indices"], mesh.vertex_position.indices)
    /\ HasKey(rec, "normals") =>
         CopiesInOrder(rec["normals"],
                       [n \in DOMAIN mesh.vertex_normal.values |->
                           AsList3(mesh.vertex_normal.values[n])])
    /\ HasKey(rec, "texcoords") =>
         CopiesInOrder(rec["texcoords"],
                       [u \in DOMAIN mesh.vertex_uv.values |->
                           <<mesh.vertex_uv.values[u].x, mesh.vertex_uv.values[u].y>>])
    /\ HasKey(rec, "material_ids") =>
         CopiesInOrder(rec["material_ids"],
                       [m \in DOMAIN mesh.materials |->
                           scene.materials[mesh.materials[m]].typed_id])

\* C3: every list of the IR that copies a native collection has the
\* collection's length and its k-th element made from the collection's k-th
\* element: a node's children, a mesh's positions, indices, normals, texcoords
\* and material_ids, and the scene's nodes, meshes, materials and textures.
C3_ListsKeepForwardOrder ==
    ReturnedOk =>
        /\ Len(IR["nodes"]) = Len(scene.nodes)
        /\ \A k \in DOMAIN scene.nodes :
             /\ IR["nodes"][k]["id"] = scene.nodes[k].typed_id
             /\ IR["nodes"][k]["translation"]
                  = AsList3(scene.nodes[k].local_transform.translation)
             /\ NodeListsInOrder(IR["nodes"][k], scene.nodes[k])
        /\ Len(IR["meshes"]) = Len(scene.meshes)
        /\ \A k \in DOMAIN scene.meshes :
             /\ IR["meshes"][k]["id"] = scene.meshes[k].typed_id
             /\ MeshListsInOrder(IR["meshes"][k], scene.meshes[k])
        /\ Len(IR["materials"]) = Len(scene.materials)
        /\ \A k \in DOMAIN scene.materials :
             IR["materials"][k]["id"] = scene.materials[k].typed_id
        /\ Len(IR["textures"]) = Len(scene.textures)
        /\ \A k \in DOMAIN scene.textures :
             /\ IR["textures"][k]["id"] = scene.textures[k].typed_id
             /\ Len(scene.textures[k].filename) > 0
                /\ <<"texture", k, "file_path">> \notin fails
                => IR["textures"][k]["file_path"].chars = scene.textures[k].filename

\* a mesh with MaxLen positions and indices, a node with two children listed
\* out of id order, or several meshes and materials
C3_Witness ==
    /\ ReturnedOk
    /\ \/ /\ Len(scene.meshes) = 1
          /\ HasKey(IR["meshes"][1], "indices")
          /\ Len(IR["meshes"][1]["positions"]) = MaxLen
          /\ Len(IR["meshes"][1]["indices"]) = MaxLen
          /\ HasKey(IR["meshes"][1], "material_ids")
       \/ /\ Len(scene.nodes) >= 3
          /\ HasKey(IR["nodes"][1], "children")
          /\ IR["nodes"][1]["children"] = <<2, 1>>

\* C4 -------------------------------------------------------------------
\* the places, in forward order, of the stacks whose bake succeeds
OkStacks ==
    SelectSeq([k \in DOMAIN scene.anim_stacks |-> k],
              LAMBDA k : bakes[scene.anim_stacks[k].anim].ok)

\* C4: whatever bakes fail, the call returns an IR whose animations hold one
\* track per stack whose bake succeeded, none for a failed one, in the stacks'
\* forward order, each with the typed id of its own stack; a failed bake does
\* not stop the call.
C4_OneTrackPerBakedStack ==
    /\ ReturnedOk =>
         /\ Len(IR["animations"]) = Len(OkStacks)
         /\ \A j \in DOMAIN OkStacks :
              /\ IR["animations"][j]["id"] = scene.anim_stacks[OkStacks[j]].typed_id
              /\ HasKey(IR["animations"][j], "name")
              /\ HasKey(IR["animations"][j], "keyframes")
    /\ pc \in {"bake_loop", "extract_animation", "free_baked"} => ENABLED Next
    /\ pc = "done" /\ parse = "ok" => result[1] = "ok"

\* the first of two stacks fails to bake, the second succeeds
C4_Witness ==
    /\ ReturnedOk
    /\ Len(scene.anim_stacks) = 2
    /\ ~bakes[1].ok
    /\ bakes[2].ok
    /\ Len(IR["animations"]) = 1
    /\ IR["animations"][1]["id"] = scene.anim_stacks[2].typed_id

\* C5 -------------------------------------------------------------------
IRKeys == {"version", "nodes", "meshes", "materials", "textures", "animations"}

SiteString(site) ==
    IF site[1] = "node" THEN scene.nodes[site[2]].name
    ELSE IF site[1] = "mesh" THEN scene.meshes[site[2]].name
    ELSE IF site[1] = "material" THEN scene.materials[site[2]].name
    ELSE IF site[1] = "texture" /\ site[3] = "name" THEN scene.textures[site[2]].name
    ELSE IF site[1] = "texture" THEN scene.textures[site[2]].filename
    ELSE scene.anim_stacks[site[2]].name

\* an allocation failed while a string was duplicated: the site's string is
\* not empty (an empty one allocates nothing) and its record was built
AllocationFailed ==
    \E site \in fails :
        /\ Len(SiteString(site)) > 0
        /\ site[1] = "animation" => bakes[scene.anim_stacks[site[2]].anim].ok

CarriesSentinel(rec) ==
    \E key \in DOMAIN rec \cap {"name", "file_path"} : rec[key] = AtomError

\* C6: when an allocation fails while a string is duplicated, the call returns
\* an error result, and no ok result carries a record with the atom error in
\* place of a name or a file path.
C6_AllocationFailureIsAnError ==
    pc = "done" /\ parse = "ok" =>
        /\ AllocationFailed => result[1] = "error"
        /\ result[1] = "ok" =>
             \A coll \in {"nodes", "meshes", "materials", "textures", "animations"} :
                 \A k \in DOMAIN IR[coll] : ~CarriesSentinel(IR[coll][k])

\* C7 -------------------------------------------------------------------
AttribPresent(attrib) == attrib.exists /\ Len(attrib.values) >= 1

\* C7: a mesh record has positions exactly when the position attribute exists
\* and is not empty, and indices exactly when it has positions and the index
\* buffer is not empty (so never indices without positions); normals,
\* texcoords and material_ids each depend on their own source alone.
C7_MeshOptionalKeys ==
    ReturnedOk =>
        \A k \in DOMAIN scene.meshes :
            LET rec == IR["meshes"][k]
                mesh == scene.meshes[k]
            IN  /\ HasKey(rec, "positions") <=> AttribPresent(mesh.vertex_position)
                /\ HasKey(rec, "indices") <=>
                     (HasKey(rec, "positions") /\ Len(mesh.vertex_position.indices) > 0)
                /\ HasKey(rec, "indices") => HasKey(rec, "positions")
                /\ HasKey(rec, "normals") <=> AttribPresent(mesh.vertex_normal)
                /\ HasKey(rec, "texcoords") <=> AttribPresent(mesh.vertex_uv)
                /\ HasKey(rec, "material_ids") <=> Len(mesh.materials) > 0
                /\ {"id", "name"} \subseteq DOMAIN rec

\* a non-empty index buffer whose positions exist but are empty: neither key,
\* while normals are emitted
C7_Witness ==
    /\ ReturnedOk
    /\ Len(scene.meshes) = 1
    /\ scene.meshes[1].vertex_position.exists
    /\ Len(scene.meshes[1].vertex_position.values) = 0
    /\ Len(scene.meshes[1].vertex_position.indices) = MaxLen
    /\ ~HasKey(IR["meshes"][1], "positions")
    /\ ~HasKey(IR["meshes"][1], "indices")
    /\ HasKey(IR["meshes"][1], "normals")
    /\ ~HasKey(IR["meshes"][1], "texcoords")

\* C8 -------------------------------------------------------------------
Qualifies(src) == src.has_value /\ src.value_components >= 3

ColorResolved(rec, key, pbr, fbx) ==
    IF Qualifies(pbr)
    THEN HasKey(rec, key) /\ rec[key] = AsList3(pbr.value_vec3)
    ELSE IF Qualifies(fbx)
    THEN HasKey(rec, key) /\ rec[key] = AsList3(fbx.value_vec3)
    ELSE ~HasKey(rec, key)

\* C8: each of diffuse_color, specular_color and emissive_color, on its own,
\* is the PBR value when the PBR source has has_value and at least 3
\* components, else the legacy value when the legacy source has, else absent;
\* a source with fewer than 3 components is never used and no default color
\* is emitted.
C8_MaterialColorFallback ==
    ReturnedOk =>
        \A k \in DOMAIN scene.materials :
            LET rec == IR["materials"][k]
                mat == scene.materials[k]
            IN  /\ ColorResolved(rec, "diffuse_color",
                                 mat.pbr.base_color, mat.fbx.diffuse_color)
                /\ ColorResolved(rec, "specular_color",
                                 mat.pbr.specular_color, mat.fbx.specular_color)
                /\ ColorResolved(rec, "emissive_color",
                                 mat.pbr.emission_color, mat.fbx.emission_color)
                /\ DOMAIN rec \subseteq
                     {"id", "name", "diffuse_color", "specular_color", "emissive_color"}

\* diffuse from PBR, specular from the legacy source because the PBR one has
\* 2 components, emissive absent because the legacy one has 2 components
C8_Witness ==
    /\ ReturnedOk
    /\ Len(scene.materials) = 1
    /\ LET mat == scene.materials[1]
           rec == IR["materials"][1]
       IN  /\ Qualifies(mat.pbr.base_color) /\ Qualifies(mat.fbx.diffuse_color)
           /\ rec["diffuse_color"] = AsList3(mat.pbr.base_color.value_vec3)
           /\ mat.pbr.specular_color.has_value
           /\ mat.pbr.specular_color.value_components = 2
           /\ Qualifies(mat.fbx.specular_color)
           /\ rec["specular_color"] = AsList3(mat.fbx.specular_color.value_vec3)
           /\ ~mat.pbr.emission_color.has_value
           /\ mat.fbx.emission_color.has_value
           /\ mat.fbx.emission_color.value_components = 2
           /\ ~HasKey(rec, "emissive_color")

\* C9 -------------------------------------------------------------------
\* C9: a node record has parent_id exactly when the node has a parent,
\* children exactly when it has a child and mesh_id exactly when it has a
\* mesh; id, name, translation, rotation and scale are in every node record.
C9_NodeOptionalKeys ==
    ReturnedOk =>
        \A k \in DOMAIN scene.nodes :
            LET rec == IR["nodes"][k]
                node == scene.nodes[k]
            IN  /\ HasKey(rec, "parent_id") <=> node.parent # 0
                /\ HasKey(rec, "children") <=> Len(node.children) >= 1
                /\ HasKey(rec, "mesh_id") <=> node.mesh # 0
                /\ {"id", "name", "translation", "rotation", "scale"} \subseteq DOMAIN rec
                /\ Len(rec["translation"]) = 3
                /\ Len(rec["rotation"]) = 4
                /\ Len(rec["scale"]) = 3

\* a root with a child and no mesh, and a leaf with a parent and a mesh
C9_Witness ==
    /\ ReturnedOk
    /\ Len(scene.nodes) = 2
    /\ DOMAIN IR["nodes"][1] = {"id", "name", "children", "translation", "rotation", "scale"}
    /\ DOMAIN IR["nodes"][2]
         = {"id", "name", "parent_id", "translation", "rotation", "scale", "mesh_id"}

\* C10 ------------------------------------------------------------------
\* the native parent and child pointers agree and stay inside scene.nodes
PointersConsistent(sc) ==
    /\ \A k \in DOMAIN sc.nodes :
         /\ sc.nodes[k].parent \in {0} \cup DOMAIN sc.nodes
         /\ Range(sc.nodes[k].children) \subseteq DOMAIN sc.nodes
    /\ \A a, b \in DOMAIN sc.nodes :
         sc.nodes[b].parent = a <=> b \in Range(sc.nodes[a].children)

ChildrenOf(rec) == IF HasKey(rec, "children") THEN Range(rec["children"]) ELSE {}

\* C10: for a scene with consistent pointers, every parent_id and every id in
\* a children list of the IR is the id of a node record of the IR, and record
\* B has parent_id = A's id exactly when A's children list holds B's id.
C10_ReferenceIntegrity ==
    ReturnedOk /\ PointersConsistent(scene) =>
        LET recs == Range(IR["nodes"])
            ids == {r["id"] : r \in recs}
        IN  /\ \A r \in recs : HasKey(r, "parent_id") => r["parent_id"] \in ids
            /\ \A r \in recs : ChildrenOf(r) \subseteq ids
            /\ \A a, b \in recs :
                 (HasKey(b, "parent_id") /\ b["parent_id"] = a["id"])
                 <=> b["id"] \in ChildrenOf(a)

\* three nodes, the root the parent of the other two
C10_Witness ==
    /\ ReturnedOk
    /\ PointersConsistent(scene)
    /\ Len(IR["nodes"]) = 3
    /\ IR["nodes"][1]["children"] = <<1, 2>>
    /\ IR["nodes"][2]["parent_id"] = 0
    /\ IR["nodes"][3]["parent_id"] = 0

\* C11 ------------------------------------------------------------------
\* C11: two calls on the same native scene, with the same bake result for
\* every stack, return the same IR: same version, same records, same keys,
\* same element order.
C11_TwoCallsSameIR ==
    pc = "done" /\ run = 2 /\ first[1] = "ok" /\ result[1] = "ok" =>
        result[2] = first[2]

\* C12 ------------------------------------------------------------------
\* the stacks the loop has baked with success so far: the loop runs from the
\* last stack down, and stack i itself is baked once the loop has left
\* pc = "bake_loop" for it
BakedSoFar ==
    {k \in DOMAIN scene.anim_stacks :
        /\ bakes[scene.anim_stacks[k].anim].ok
        /\ IF pc \in {"extract_animation", "free_baked"} THEN k >= i ELSE k > i}

\* C12: in a call whose parser succeeded the resources are released in order
\* and exactly once.  A baked buffer is read (pc = "extract_animation") only
\* while it is live after a successful bake; it is released right after its
\* track is built, so that no buffer is live when the next stack is baked and
\* every buffer baked so far but the live one has been released exactly once;
\* none is live or unreleased when the loop has ended.  The scene is live at
\* every step that reads it, is released once, when the whole IR is assembled
\* and every bake is over, and is released before the call returns.
C12_ReleasedInOrderExactlyOnce ==
    parse = "ok" /\ pc # "idle" =>
        /\ pc = "extract_scene_data" =>
              sceneLive /\ sceneFrees = 0 /\ ~bakedLive /\ bakedFrees = 0
        /\ pc = "bake_loop" =>
              /\ sceneLive /\ sceneFrees = 0
              /\ ~bakedLive
              /\ bakedFrees = Cardinality(BakedSoFar)
              /\ Len(animations) = bakedFrees
        /\ pc = "extract_animation" =>
              /\ sceneLive /\ sceneFrees = 0
              /\ bakedLive
              /\ bakes[scene.anim_stacks[i].anim].ok
              /\ baked = bakes[scene.anim_stacks[i].anim].anim
              /\ bakedFrees = Cardinality(BakedSoFar) - 1
              /\ Len(animations) = bakedFrees
        /\ pc = "free_baked" =>
              /\ sceneLive /\ sceneFrees = 0
              /\ bakedLive
              /\ bakedFrees = Cardinality(BakedSoFar) - 1
              /\ Len(animations) = bakedFrees + 1
        /\ pc = "free_scene" =>
              /\ sceneLive /\ sceneFrees = 0
              /\ DOMAIN scene_data = IRKeys
              /\ i = 0
              /\ bakeCalls = Len(scene.anim_stacks)
              /\ ~bakedLive
              /\ bakedFrees = Len(OkStacks)
        /\ pc \in {"return", "done"} =>
              /\ ~sceneLive /\ sceneFrees = 1
              /\ ~bakedLive
              /\ bakedFrees = Len(OkStacks)
        /\ pc = "done" => result = <<"ok", scene_data>>

\* a call that baked two stacks with success, released both buffers and the
\* scene, and returned
C12_Witness ==
    /\ ReturnedOk
    /\ Len(OkStacks) = 2
    /\ bakeCalls = 2
    /\ bakedFrees = 2
    /\ sceneFrees = 1
    /\ ~sceneLive
    /\ ~bakedLive

\* C13 ------------------------------------------------------------------
\* the keys an extractor staged, and the value of idx when it is done
KeysOf(kv) == {kv[j][1] : j \in DOMAIN kv}

\* idx ends at most at "most", below the size of the arrays, no key was
\* staged twice, and the record built holds one entry per staged pair
Staged(kv, most, slots) ==
    /\ Len(kv) <= most
    /\ most < slots
    /\ Cardinality(KeysOf(kv)) = Len(kv)
    /\ DOMAIN BuildMap(kv) = KeysOf(kv)

\* C13: in every extractor the write index into keys[] / values[] stays
\* below the capacity whatever optional fields are present: at most 8 of 10
\* slots in extract_node, 7 of 10 in extract_mesh, 5 of 10 in
\* extract_material, 3 of 5 in extract_texture, 3 of 4 in extract_animation,
\* and each key is written at most once per record.
C13_StagingIndexBelowCapacity ==
    parse = "ok" =>
        /\ \A k \in DOMAIN scene.nodes :
              Staged(extract_node_kv(scene, fails, k, scene.nodes[k].typed_id),
                     8, NodeSlots)
        /\ \A k \in DOMAIN scene.meshes :
              Staged(extract_mesh_kv(scene, fails, k), 7, MeshSlots)
        /\ \A k \in DOMAIN scene.materials :
              Staged(extract_material_kv(scene, fails, k), 5, MaterialSlots)
        /\ \A k \in DOMAIN scene.textures :
              Staged(extract_texture_kv(scene, fails, k), 3, TextureSlots)
        /\ pc = "extract_animation" =>
              Staged(extract_animation_kv(baked, scene.anim_stacks[i],
                                          <<"animation", i, "name">> \notin fails),
                     3, AnimationSlots)
        /\ ReturnedOk =>
              /\ \A k \in DOMAIN scene.nodes :
                    Cardinality(DOMAIN IR["nodes"][k]) =
                        Len(extract_node_kv(scene, fails, k, scene.nodes[k].typed_id))
              /\ \A k \in DOMAIN scene.meshes :
                    Cardinality(DOMAIN IR["meshes"][k]) =
                        Len(extract_mesh_kv(scene, fails, k))
              /\ \A k \in DOMAIN scene.materials :
                    Cardinality(DOMAIN IR["materials"][k]) =
                        Len(extract_material_kv(scene, fails, k))
              /\ \A k \in DOMAIN scene.textures :
                    Cardinality(DOMAIN IR["textures"][k]) =
                        Len(extract_texture_kv(scene, fails, k))
              /\ \A j \in DOMAIN IR["animations"] :
                    Cardinality(DOMAIN IR["animations"][j]) = 3

\* a returned IR with a node that has a parent, children and a mesh: all 8
\* keys of extract_node
C13_Witness ==
    /\ ReturnedOk
    /\ \E k \in DOMAIN scene.nodes :
          /\ Len(extract_node_kv(scene, fails, k, scene.nodes[k].typed_id)) = 8
          /\ Cardinality(DOMAIN IR["nodes"][k]) = 8

====
